---- MODULE Spec2Model ----
(***************************************************************************)
(* Order workflow engine of the seafood order tracker: the status graph,   *)
(* the role policy, the transition validator and the transactional         *)
(* status change of OrderService.update_order_status, with the requests    *)
(* of several staff members running concurrently against one database.     *)
(***************************************************************************)
EXTENDS Integers, Sequences, FiniteSets, TLC

(***************************************************************************)
(* Bounds of the model.                                                    *)
(***************************************************************************)
\* number of request handlers that can be in flight at the same time
MaxInFlight == 2
\* number of status-change requests submitted in one behaviour
MaxRequests == 2
\* number of images uploaded in one behaviour
MaxImages == 1
\* number of create_order handlers that can be in flight at the same time
MaxCreators == 2
\* number of create_order requests submitted in one behaviour
MaxCreates == 3
\* number of suffixes an order number can have on one date (10000 in the code)
MaxSuffixes == 3
MaxObservers == 2
MaxPublished == 2
MaxStaffRequests == 4

Reqs == 1..MaxInFlight

(***************************************************************************)
(* core/enums/base_enum.py                                                 *)
(***************************************************************************)
OrderStatus ==
  {"created", "weighing", "create_invoice", "send_photo", "payment",
   "in_kitchen", "processing", "delivery", "completed", "failed"}

UserRole == {"admin", "manager", "sale", "weighing", "kitchen"}

\* Python's None
None == "None"

get_duration_minutes(status) ==
  CASE status = "created" -> 15
    [] status = "weighing" -> 20
    [] status = "create_invoice" -> 10
    [] status = "send_photo" -> 10
    [] status = "payment" -> 30
    [] status = "in_kitchen" -> 60
    [] status = "processing" -> 45
    [] status = "delivery" -> 30
    [] status = "completed" -> 0
    [] status = "failed" -> 0
    [] OTHER -> 0

get_allowed_statuses_sale_may_fail(role) ==
  IF role \in {"admin", "manager"} THEN OrderStatus
  ELSE IF role = "sale"
    THEN {"created", "weighing", "create_invoice", "send_photo", "payment",
          "failed"}
  ELSE IF role = "weighing"
    THEN {"weighing", "create_invoice", "send_photo"}
  ELSE IF role = "kitchen"
    THEN {"in_kitchen", "processing", "delivery", "completed"}
  ELSE {}

get_allowed_statuses(role) ==
  IF role \in {"admin", "manager"} THEN OrderStatus
  ELSE IF role = "sale"
    THEN {"created", "weighing", "create_invoice", "send_photo", "payment"}
  ELSE IF role = "weighing"
    THEN {"weighing", "create_invoice", "send_photo"}
  ELSE IF role = "kitchen"
    THEN {"in_kitchen", "processing", "delivery", "completed"}
  ELSE {}

can_transition_to_only(role, from_status, to_status) ==
  \/ role \in {"admin", "manager"}
  \/ to_status \in get_allowed_statuses(role)

can_transition(role, from_status, to_status) ==
  \/ role \in {"admin", "manager"}
  \/ /\ from_status \in get_allowed_statuses(role)
     /\ to_status \in get_allowed_statuses(role)

(***************************************************************************)
(* apps/orders/services/service_a.py: the transition validator             *)
(***************************************************************************)
workflow_order ==
  <<"created", "weighing", "create_invoice", "send_photo", "payment",
    "in_kitchen", "processing", "delivery", "completed">>

InWorkflow(status) == \E i \in 1..Len(workflow_order) : workflow_order[i] = status

\* list.index
index(status) == CHOOSE i \in 1..Len(workflow_order) : workflow_order[i] = status

abs(n) == IF n < 0 THEN 0 - n ELSE n

\* The ValueError raised, by the place that raises it, or "ok".
validate_status_transition_no_skip(current_status, new_status) ==
  IF current_status \in {"completed", "failed"} THEN "terminal"
  ELSE IF new_status = "failed" THEN "ok"
  ELSE IF ~InWorkflow(new_status) THEN "invalid_status"
  ELSE IF ~InWorkflow(current_status) THEN "invalid_state"
  ELSE IF abs(index(new_status) - index(current_status)) # 1 THEN "not_adjacent"
  ELSE IF new_status = "completed" /\ current_status # "delivery"
    THEN "completed_not_from_delivery"
  ELSE "ok"

validate_status_transition_payment_skips(current_status, new_status) ==
  IF current_status \in {"completed", "failed"} THEN "terminal"
  ELSE IF new_status = "failed" THEN "ok"
  ELSE IF ~InWorkflow(new_status) THEN "invalid_status"
  ELSE IF ~InWorkflow(current_status) THEN "invalid_state"
  ELSE IF current_status = "payment" /\ new_status = "delivery" THEN "ok"
  ELSE IF current_status = "payment" /\ new_status = "in_kitchen"
    THEN "not_adjacent"
  ELSE IF abs(index(new_status) - index(current_status)) # 1 THEN "not_adjacent"
  ELSE IF new_status = "completed" /\ current_status # "delivery"
    THEN "completed_not_from_delivery"
  ELSE "ok"

validate_status_transition_no_terminal_guard(current_status, new_status) ==
  IF new_status = "failed" THEN "ok"
  ELSE IF ~InWorkflow(new_status) THEN "invalid_status"
  ELSE IF ~InWorkflow(current_status) THEN "invalid_state"
  ELSE IF current_status = "payment" /\ new_status = "delivery" THEN "ok"
  ELSE IF abs(index(new_status) - index(current_status)) # 1 THEN "not_adjacent"
  ELSE IF new_status = "completed" /\ current_status # "delivery"
    THEN "completed_not_from_delivery"
  ELSE "ok"

validate_status_transition_no_failed_shortcut(current_status, new_status) ==
  IF current_status \in {"completed", "failed"} THEN "terminal"
  ELSE IF ~InWorkflow(new_status) THEN "invalid_status"
  ELSE IF ~InWorkflow(current_status) THEN "invalid_state"
  ELSE IF current_status = "payment" /\ new_status = "delivery" THEN "ok"
  ELSE IF abs(index(new_status) - index(current_status)) # 1 THEN "not_adjacent"
  ELSE IF new_status = "completed" /\ current_status # "delivery"
    THEN "completed_not_from_delivery"
  ELSE "ok"

validate_status_transition_adjacency_first(current_status, new_status) ==
  IF new_status = "failed" /\ current_status \notin {"completed", "failed"}
    THEN "ok"
  ELSE IF ~InWorkflow(new_status) THEN "invalid_status"
  ELSE IF ~InWorkflow(current_status) THEN "invalid_state"
  ELSE IF current_status = "payment" /\ new_status = "delivery" THEN "ok"
  ELSE IF abs(index(new_status) - index(current_status)) # 1 THEN "not_adjacent"
  ELSE IF current_status \in {"completed", "failed"} THEN "terminal"
  ELSE IF new_status = "completed" /\ current_status # "delivery"
    THEN "completed_not_from_delivery"
  ELSE "ok"

validate_status_transition(current_status, new_status) ==
  IF current_status \in {"completed", "failed"} THEN "terminal"
  ELSE IF new_status = "failed" THEN "ok"
  ELSE IF ~InWorkflow(new_status) THEN "invalid_status"
  ELSE IF ~InWorkflow(current_status) THEN "invalid_state"
  ELSE IF current_status = "payment" /\ new_status = "delivery" THEN "ok"
  ELSE IF abs(index(new_status) - index(current_status)) # 1 THEN "not_adjacent"
  ELSE IF new_status = "completed" /\ current_status # "delivery"
    THEN "completed_not_from_delivery"
  ELSE "ok"

\* image_types: the image_type of every OrderImage row of the order
validate_transition_requirements_evidence(current_status, new_status, image_types) ==
  IF current_status = "weighing" /\ new_status = "create_invoice"
       /\ "weighing" \notin image_types
    THEN "missing_evidence"
  ELSE IF current_status = "create_invoice" /\ new_status = "send_photo"
       /\ "invoice" \notin image_types
    THEN "missing_evidence"
  ELSE "ok"

\* every branch of the method is `pass`
validate_transition_requirements(current_status, new_status, image_types) == "ok"

(***************************************************************************)
(* State                                                                   *)
(***************************************************************************)
VARIABLES
  orders,        \* table orders, committed: order id -> row
  status_history, \* table order_status_history, committed, oldest first
  activities,    \* table order_activities, committed, oldest first
  images,        \* table order_images, committed, oldest first
  next_image_id, \* the id sequence of order_images
  events,        \* messages handed to the order_updates group, oldest first
  clock,         \* timezone.now(), in minutes
  req,           \* the request handlers: position, payload, what each has read
  response,      \* the response sent by the last step, with its request
  tx,            \* the open transaction that holds the order's row lock
  submitted,     \* number of status-change requests submitted
  order_items,   \* table order_items, committed, oldest first
  next_order_id, \* the id sequence of orders
  creating,      \* the create_order handlers: position, payload, open transaction
  created,       \* number of create_order requests submitted
  assigned_to,   \* table orders_assigned_to, committed: <<order id, user id>>
  op_response,   \* the outcome of the last upload, deletion or assignment
  observers      \* the websocket connections: position, membership of the
                 \* order_updates group, channel and what the client received

\* the state that only create_order touches
create_vars ==
  <<order_items, next_order_id, creating, created, assigned_to, op_response, observers>>

vars ==
  <<orders, status_history, activities, images, next_image_id, events,
    clock, req, response, tx, submitted, order_items, next_order_id,
    creating, created, assigned_to, op_response, observers>>

\* ids a request may name; only TheOrder exists
TheOrder == 1
OrderIds == {TheOrder, TheOrder + 1}

\* new_status is any string: the ten statuses and one that is none of them
RequestedStatuses == OrderStatus \cup {"cancelled"}

\* failure_reason of the payload: None is the field left out
FailureReasons == {None, "", "changed mind"}

\* The requests submitted: every role asks for every status of the order
\* that exists, a reason comes with "failed" only, and one request names an
\* order that does not exist.
Requests ==
  {[order_id |-> TheOrder, user |-> u, new_status |-> s, failure_reason |-> f] :
     u \in UserRole, s \in RequestedStatuses, f \in {None}}
  \cup
  {[order_id |-> TheOrder, user |-> u, new_status |-> "failed",
    failure_reason |-> f] : u \in UserRole, f \in FailureReasons}
  \cup
  {[order_id |-> TheOrder + 1, user |-> "sale", new_status |-> "weighing",
    failure_reason |-> None]}

ImageTypes == {"weighing", "invoice", "other"}
Uploaders == {"sale", "weighing"}

NoTx == [owner |-> 0]

\* no Order instance loaded
NoOrder ==
  [status |-> None, status_changed_at |-> 0, deadline |-> 0,
   failure_reason |-> None]

IdleReq ==
  [pc |-> "idle", order_id |-> 0, user |-> None, new_status |-> None,
   failure_reason |-> None, seen |-> None, order |-> NoOrder,
   old_status |-> None]

\* The response to a request: who asked for what, the status the router saw
\* (seen), the status the service saw (old_status) and the outcome.
Response(request, result) ==
  [order_id |-> request.order_id, user |-> request.user,
   new_status |-> request.new_status, seen |-> request.seen,
   old_status |-> request.old_status, result |-> result]

NoResponse == Response(IdleReq, None)

\* `x or ''`
or_empty(x) == IF x = None \/ x = "" THEN "" ELSE x

\* `x if x else None`
or_none(x) == IF x = None \/ x = "" THEN None ELSE x

Last(seq) == seq[Len(seq)]

ImageTypesOf(order_id) ==
  {images[i].image_type : i \in {j \in 1..Len(images) : images[j].order = order_id}}

(***************************************************************************)
(* create_order: the payload (CreateOrderSchema) and the handler's state.  *)
(* A Decimal is the integer number of its quarters: 4 is 1, 2 is 0.5.      *)
(***************************************************************************)
Creators == 1..MaxCreators

\* Decimal(n) for a whole n
D(n) == 4 * n

\* Decimal('0.5')
Half == D(1) \div 2

\* Decimal * Decimal
mul(a, b) == (a * b) \div D(1)

\* a column with decimal_places=0 (numeric(12, 0)) stores the value rounded to
\* a whole number, halves away from zero
numeric_12_0(value) == ((value + Half) \div D(1)) * D(1)

\* ids of the products table
Products == {1}

\* product_id: Optional[int] = None, the field left out
NoProductId == 0 - 1

Item(quantity, price, product_id) ==
  [quantity |-> quantity, price |-> price, product_id |-> product_id]

\* ids of the users table; an assigned_to_ids list may name others
Staff == {1, 2}
UserIds == Staff \cup {3}

Payload(items, shipping_fee, chip_fee, user, assigned_to_ids) ==
  [items |-> items, shipping_fee |-> shipping_fee, chip_fee |-> chip_fee,
   user |-> user, assigned_to_ids |-> assigned_to_ids]

\* The orders submitted: whole amounts, fees of 0.5, quantities of 0.5 and
\* 1.5, a price of 0, no product, a product that exists, product id 0 and,
\* after a valid item, a product that does not exist; nobody assigned, staff
\* assigned, and a user id that does not exist assigned; orders submitted by
\* sale, admin and kitchen actors.
Payloads ==
  { Payload(<<Item(D(2), D(100000), NoProductId), Item(D(1), D(50000), 1)>>,
            D(20000), D(10000), "sale", <<>>),
    Payload(<<Item(D(1), D(1), 0)>>, Half, Half, "sale", <<1>>),
    Payload(<<Item(Half, D(1), NoProductId)>>, D(0), D(0), "admin", <<1, 2>>),
    Payload(<<Item(D(1) + Half, D(3), NoProductId), Item(D(2), D(0), 1)>>,
            D(1), D(0), "sale", <<2, 3>>),
    Payload(<<Item(D(1), D(3), 1), Item(D(1), D(3), 2)>>,
            D(0), D(0), "sale", <<1>>),
    Payload(<<Item(D(1), D(1), NoProductId)>>, D(0), D(0), "kitchen", <<>>) }

NoPayload == Payload(<<>>, 0, 0, None, <<>>)

\* an Order instance with the columns create_order sets
OrderInstance(order_number, now, deadline, subtotal, shipping_fee, chip_fee, total, user) ==
  [order_number |-> order_number, status |-> "created",
   status_changed_at |-> now, deadline |-> deadline, failure_reason |-> "",
   subtotal |-> subtotal, shipping_fee |-> shipping_fee,
   chip_fee |-> chip_fee, total |-> total, created_by |-> user,
   customer_name |-> "customer"]

NoInstance == OrderInstance(0, 0, 0, 0, 0, 0, 0, None)

IdleCreate ==
  [pc |-> "idle", payload |-> NoPayload, via |-> None, id |-> 0,
   order |-> NoInstance, items |-> <<>>, assigned |-> {}]

\* The response of POST /: the outcome, the order returned by the service,
\* its id and payload, and how its order number was generated.
CreateResponse(creator, result) ==
  [result |-> result, order_id |-> creator.id, order |-> creator.order,
   payload |-> creator.payload, via |-> creator.via]

NoCreateResponse == CreateResponse(IdleCreate, None)

\* The outcome of an upload, a deletion or an assignment: the operation, the
\* order and image it named, the user ids it was given and how it ended.
OpResponse(op, order_id, image_id, user_ids, result) ==
  [op |-> op, order_id |-> order_id, image_id |-> image_id,
   user_ids |-> user_ids, result |-> result]

NoOpResponse == OpResponse(None, 0, 0, <<>>, None)

\* the websocket connections, one OrderConsumer each
Observers == 1..MaxObservers

\* a connection that has not been opened: joined_at is the number of events
\* published when it joined the group
ClosedObserver ==
  [pc |-> "closed", in_group |-> FALSE, mailbox |-> <<>>, received |-> <<>>,
   joined_at |-> 0]

(***************************************************************************)
(* Init: order 1 was created by a sale and moved forward one step at a     *)
(* time by a manager up to any non-terminal status, one minute per step.   *)
(***************************************************************************)
StatusHistoryRow(order_id, from_status, to_status, user, reason) ==
  [order |-> order_id, from_status |-> from_status, to_status |-> to_status,
   changed_by |-> user, notes |-> or_empty(reason)]

StatusChangeActivity(order_id, old_status, new_status, user, reason) ==
  [order |-> order_id, user |-> user, activity_type |-> "status_change",
   old_value |-> old_status, new_value |-> new_status,
   reason |-> or_none(reason)]

CreatedActivity(order_id, user) ==
  [order |-> order_id, user |-> user, activity_type |-> "created",
   old_value |-> None, new_value |-> None, reason |-> None]

StatusChangedEvent(order_id, old_status, new_status, order_status) ==
  [type |-> "order_status_changed", order_id |-> order_id,
   old_status |-> old_status, new_status |-> new_status,
   order_status |-> order_status]

CreatedEvent(order_id) ==
  [type |-> "order_created", order_id |-> order_id, old_status |-> None,
   new_status |-> None, order_status |-> "created"]

ImageUploadedEvent(order_id, image_id) ==
  [type |-> "order_image_uploaded", order_id |-> order_id, old_status |-> None,
   new_status |-> None, order_status |-> None]

InitAt(k) ==
  /\ orders = [o \in {TheOrder} |->
       [OrderInstance(1, 0, 0, D(1), 0, 0, D(1), "sale")
          EXCEPT !.status = workflow_order[k],
                 !.status_changed_at = k - 1,
                 !.deadline = (k - 1) + get_duration_minutes(workflow_order[k])]]
  /\ status_history = [i \in 1..(k - 1) |->
       StatusHistoryRow(TheOrder, workflow_order[i], workflow_order[i + 1],
                        "manager", None)]
  /\ activities = <<CreatedActivity(TheOrder, "sale")>> \o
       [i \in 1..(k - 1) |->
         StatusChangeActivity(TheOrder, workflow_order[i], workflow_order[i + 1],
                              "manager", None)]
  /\ events = <<CreatedEvent(TheOrder)>> \o
       [i \in 1..(k - 1) |->
         StatusChangedEvent(TheOrder, workflow_order[i], workflow_order[i + 1],
                            workflow_order[i + 1])]
  /\ clock = k

InitRest ==
  /\ images = <<>>
  /\ next_image_id = 1
  /\ req = [r \in Reqs |-> IdleReq]
  /\ response = NoResponse
  /\ tx = NoTx
  /\ submitted = 0
  /\ order_items = <<>>
  /\ next_order_id = TheOrder + 1
  /\ creating = [c \in Creators |-> IdleCreate]
  /\ created = 0
  /\ assigned_to = {}
  /\ op_response = NoOpResponse
  /\ observers = [o \in Observers |-> ClosedObserver]

Init ==
  /\ \E k \in 1..(Len(workflow_order) - 1) : InitAt(k)
  /\ InitRest

(***************************************************************************)
(* apps/orders/schemas/input_schema.py: UpdateOrderStatusSchema            *)
(***************************************************************************)
\* The validator of failure_reason runs only when the field is given.
validate_failure_reason(new_status, failure_reason) ==
  IF failure_reason # None /\ new_status = "failed" /\ failure_reason = ""
    THEN "payload_invalid"
  ELSE "ok"

(***************************************************************************)
(* apps/orders/routers/router_a.py: PATCH /{order_id}/status, up to the    *)
(* call of the service. The response, or "service" when the service is     *)
(* called.                                                                 *)
(***************************************************************************)
router_check_no_return(order_id, user, new_status, failure_reason) ==
  IF validate_failure_reason(new_status, failure_reason) # "ok"
    THEN "payload_invalid"
  ELSE IF order_id \notin DOMAIN orders THEN "order_not_found"
  ELSE "service"

router_check(order_id, user, new_status, failure_reason) ==
  IF validate_failure_reason(new_status, failure_reason) # "ok"
    THEN "payload_invalid"
  ELSE IF order_id \notin DOMAIN orders THEN "order_not_found"
  ELSE IF ~can_transition(user, orders[order_id].status, new_status)
    THEN "forbidden"
  ELSE "service"

\* the router's handler of one request: the order is read and the role checked
router_update_order_status(r, q) ==
  LET outcome == router_check(q.order_id, q.user, q.new_status,
                              q.failure_reason)
      request == [pc |-> "service", order_id |-> q.order_id,
                  user |-> q.user, new_status |-> q.new_status,
                  failure_reason |-> q.failure_reason,
                  seen |-> IF q.order_id \in DOMAIN orders
                             THEN orders[q.order_id].status ELSE None,
                  order |-> NoOrder, old_status |-> None]
  IN IF outcome = "service"
       THEN req' = [req EXCEPT ![r] = request] /\ response' = NoResponse
       ELSE response' = Response(request, outcome) /\ UNCHANGED req

RouterUpdateOrderStatus(r) ==
  /\ req[r].pc = "idle"
  /\ \A r2 \in Reqs : r2 < r => req[r2].pc # "idle"
  /\ submitted < MaxRequests
  /\ \E q \in Requests : router_update_order_status(r, q)
  /\ submitted' = submitted + 1
  /\ UNCHANGED create_vars
  /\ UNCHANGED <<orders, status_history, activities, images, next_image_id,
                 events, clock, tx>>

\* the requests of the actors that are neither admin nor manager
StaffRoles == {"sale", "weighing", "kitchen"}

StaffRequests ==
  {[order_id |-> TheOrder, user |-> u, new_status |-> s, failure_reason |-> f] :
     u \in StaffRoles, s \in RequestedStatuses, f \in {None}}
  \cup
  {[order_id |-> TheOrder, user |-> u, new_status |-> "failed",
    failure_reason |-> "changed mind"] : u \in StaffRoles}

\* PATCH /{order_id}/status by a sale, weighing or kitchen actor
StaffUpdateOrderStatus(r) ==
  /\ req[r].pc = "idle"
  /\ \A r2 \in Reqs : r2 < r => req[r2].pc # "idle"
  /\ submitted < MaxStaffRequests
  /\ \E q \in StaffRequests : router_update_order_status(r, q)
  /\ submitted' = submitted + 1
  /\ UNCHANGED create_vars
  /\ UNCHANGED <<orders, status_history, activities, images, next_image_id,
                 events, clock, tx>>

(***************************************************************************)
(* OrderService.update_order_status: the transaction begins, the order is  *)
(* read (a plain SELECT: the committed row, no lock) and the request is    *)
(* validated against what was read.                                        *)
(***************************************************************************)
\* OrderStatus(value): ValueError for a value that is no member
status_label(status) == IF status \in OrderStatus THEN "ok" ELSE "invalid_enum"

service_validate_unknown_accepted(order_id, new_status) ==
  IF order_id \notin DOMAIN orders THEN "order_not_found"
  ELSE IF new_status \notin OrderStatus THEN "ok"
  ELSE LET v == validate_status_transition(orders[order_id].status, new_status)
       IN IF v # "ok" THEN v
          ELSE validate_transition_requirements(
                 orders[order_id].status, new_status, ImageTypesOf(order_id))

service_validate(order_id, new_status) ==
  IF order_id \notin DOMAIN orders THEN "order_not_found"
  ELSE LET v == validate_status_transition(orders[order_id].status, new_status)
           w == validate_transition_requirements(
                  orders[order_id].status, new_status, ImageTypesOf(order_id))
       IN IF v # "ok" THEN v
          ELSE IF w # "ok" THEN w
          ELSE status_label(new_status)

ServiceValidate_status_written_first(r) ==
  /\ req[r].pc = "service"
  /\ LET outcome == service_validate(req[r].order_id, req[r].new_status)
         order == IF req[r].order_id \in DOMAIN orders
                    THEN orders[req[r].order_id] ELSE NoOrder
         request == [req[r] EXCEPT !.order = order, !.old_status = order.status]
     IN IF outcome = "ok"
          THEN /\ req' = [req EXCEPT ![r] = [request EXCEPT !.pc = "validated"]]
               /\ response' = NoResponse
               /\ UNCHANGED orders
          ELSE /\ req' = [req EXCEPT ![r] = IdleReq]
               /\ response' = Response(request, outcome)
               /\ orders' = [o \in DOMAIN orders |->
                               IF o = req[r].order_id
                                 THEN [orders[o] EXCEPT !.status = req[r].new_status]
                                 ELSE orders[o]]
  /\ UNCHANGED create_vars
  /\ UNCHANGED <<status_history, activities, images, next_image_id,
                 events, clock, tx, submitted>>

ServiceValidate(r) ==
  /\ req[r].pc = "service"
  /\ LET outcome == service_validate(req[r].order_id, req[r].new_status)
         order == IF req[r].order_id \in DOMAIN orders
                    THEN orders[req[r].order_id] ELSE NoOrder
         request == [req[r] EXCEPT !.order = order, !.old_status = order.status]
     IN IF outcome = "ok"
          THEN /\ req' = [req EXCEPT ![r] = [request EXCEPT !.pc = "validated"]]
               /\ response' = NoResponse
          ELSE /\ req' = [req EXCEPT ![r] = IdleReq]
               /\ response' = Response(request, outcome)
  /\ UNCHANGED create_vars
  /\ UNCHANGED <<orders, status_history, activities, images, next_image_id,
                 events, clock, tx, submitted>>

(***************************************************************************)
(* Order.update_status on the instance the service read: the fields are    *)
(* set and save() updates the whole row, which takes the row lock until    *)
(* the transaction ends.                                                   *)
(***************************************************************************)
update_status_fields(order, new_status, reason, now) ==
  [order EXCEPT
     !.status = new_status,
     !.status_changed_at = now,
     !.deadline = IF get_duration_minutes(new_status) > 0
                    THEN now + get_duration_minutes(new_status)
                    ELSE order.deadline,
     !.failure_reason = IF new_status = "failed" THEN or_empty(reason)
                        ELSE order.failure_reason]

Save(r) ==
  /\ req[r].pc = "validated"
  /\ tx.owner = 0
  /\ LET row == update_status_fields(req[r].order, req[r].new_status,
                                     req[r].failure_reason, clock)
     IN /\ tx' = [owner |-> r, order |-> row, status_history |-> <<>>,
                  activities |-> <<>>]
        /\ req' = [req EXCEPT ![r].pc = "saved", ![r].order = row]
  /\ clock' = clock + 1
  /\ response' = NoResponse
  /\ UNCHANGED create_vars
  /\ UNCHANGED <<orders, status_history, activities, images, next_image_id,
                 events, submitted>>

\* OrderStatusHistory.objects.create, the last statement of update_status
CreateStatusHistory(r) ==
  /\ req[r].pc = "saved"
  /\ tx' = [tx EXCEPT !.status_history = Append(@,
              StatusHistoryRow(req[r].order_id, req[r].old_status,
                               req[r].new_status, req[r].user,
                               req[r].failure_reason))]
  /\ req' = [req EXCEPT ![r].pc = "history_created"]
  /\ response' = NoResponse
  /\ UNCHANGED create_vars
  /\ UNCHANGED <<orders, status_history, activities, images, next_image_id,
                 events, clock, submitted>>

\* _log_activity(activity_type='status_change')
LogActivity(r) ==
  /\ req[r].pc = "history_created"
  /\ tx' = [tx EXCEPT !.activities = Append(@,
              StatusChangeActivity(req[r].order_id, req[r].old_status,
                                   req[r].new_status, req[r].user,
                                   req[r].failure_reason))]
  /\ req' = [req EXCEPT ![r].pc = "logged"]
  /\ response' = NoResponse
  /\ UNCHANGED create_vars
  /\ UNCHANGED <<orders, status_history, activities, images, next_image_id,
                 events, clock, submitted>>

\* apps/orders/websocket_utils.py: the message goes to the order_updates group
broadcast_order_status_changed(order_id, old_status, new_status, order_data) ==
  Append(events, StatusChangedEvent(order_id, old_status, new_status, order_data))

\* the broadcast, still inside the transaction
Broadcast(r) ==
  /\ req[r].pc = "logged"
  /\ events' = broadcast_order_status_changed(
                 req[r].order_id, req[r].old_status, req[r].new_status,
                 req[r].order.status)
  /\ req' = [req EXCEPT ![r].pc = "broadcast"]
  /\ response' = NoResponse
  /\ UNCHANGED create_vars
  /\ UNCHANGED <<orders, status_history, activities, images, next_image_id,
                 clock, tx, submitted>>

\* apps/orders/websocket_utils.py: the transport fails, the helper logs the
\* error and returns; nothing reaches the group
broadcast_order_status_changed_failed(order_id, old_status, new_status, order_data) ==
  events

\* the broadcast whose transport fails, still inside the transaction
BroadcastFails(r) ==
  /\ req[r].pc = "logged"
  /\ events' = broadcast_order_status_changed_failed(
                 req[r].order_id, req[r].old_status, req[r].new_status,
                 req[r].order.status)
  /\ req' = [req EXCEPT ![r].pc = "broadcast_failed"]
  /\ response' = NoResponse
  /\ UNCHANGED create_vars
  /\ UNCHANGED <<orders, status_history, activities, images, next_image_id,
                 clock, tx, submitted>>

commit_orders_dropped(order_id) == orders

\* What the end of the atomic block makes visible. Model.save() is an UPDATE
\* of the row and, when the UPDATE matches no row, an INSERT of the instance.
commit_orders(order_id) ==
  [o \in DOMAIN orders \cup {order_id} |->
     IF o = order_id THEN tx.order ELSE orders[o]]

\* transaction.atomic exits normally: the commit
Commit(r) ==
  /\ req[r].pc \in {"broadcast", "broadcast_failed"}
  /\ orders' = commit_orders(req[r].order_id)
  /\ status_history' = status_history \o tx.status_history
  /\ activities' = activities \o tx.activities
  /\ tx' = NoTx
  /\ req' = [req EXCEPT ![r] = IdleReq]
  /\ response' = Response(req[r], "ok")
  /\ UNCHANGED create_vars
  /\ UNCHANGED <<images, next_image_id, events, clock, submitted>>

rollback_orders_partial(order_id) == [orders EXCEPT ![order_id] = tx.order]

\* what an exception leaving the atomic block makes visible
rollback_orders(order_id) == orders

\* A database statement after save() fails (the history insert, the activity
\* insert, the commit): the exception leaves transaction.atomic, which rolls
\* back, and the router answers 400.
Abort(r) ==
  /\ req[r].pc \in {"saved", "history_created", "logged", "broadcast",
                    "broadcast_failed"}
  /\ orders' = rollback_orders(req[r].order_id)
  /\ tx' = NoTx
  /\ req' = [req EXCEPT ![r] = IdleReq]
  /\ response' = Response(req[r], "error")
  /\ UNCHANGED create_vars
  /\ UNCHANGED <<status_history, activities, images, next_image_id, events,
                 clock, submitted>>

(***************************************************************************)
(* OrderService.upload_order_image, one transaction: the image row, the    *)
(* activity and the broadcast.                                             *)
(***************************************************************************)
ImageUploadedActivity(order_id, user) ==
  [order |-> order_id, user |-> user, activity_type |-> "image_uploaded",
   old_value |-> None, new_value |-> None, reason |-> None]

\* apps/orders/websocket_utils.py: the message goes to the order_updates group
broadcast_order_image_uploaded(order_id, image_id) ==
  Append(events, ImageUploadedEvent(order_id, image_id))

UploadOrderImage ==
  /\ next_image_id <= MaxImages
  /\ \E order_id \in OrderIds, image_type \in ImageTypes, user \in Uploaders :
       IF order_id \notin DOMAIN orders
         THEN /\ op_response' = OpResponse("upload_order_image", order_id, 0,
                                           <<>>, "order_not_found")
              /\ UNCHANGED <<images, next_image_id, activities, events>>
         ELSE /\ images' = Append(images,
                   [id |-> next_image_id, order |-> order_id,
                    image_type |-> image_type, uploaded_by |-> user])
              /\ next_image_id' = next_image_id + 1
              /\ activities' = Append(activities,
                                      ImageUploadedActivity(order_id, user))
              /\ events' = broadcast_order_image_uploaded(order_id,
                                                          next_image_id)
              /\ op_response' = OpResponse("upload_order_image", order_id,
                                           next_image_id, <<>>, "uploaded")
  /\ response' = NoResponse
  /\ UNCHANGED <<orders, status_history, clock, req, tx, submitted,
                 order_items, next_order_id, creating, created, assigned_to,
                 observers>>

Next ==
  \/ \E r \in Reqs : RouterUpdateOrderStatus(r)
  \/ \E r \in Reqs : ServiceValidate(r)
  \/ \E r \in Reqs : Save(r)
  \/ \E r \in Reqs : CreateStatusHistory(r)
  \/ \E r \in Reqs : LogActivity(r)
  \/ \E r \in Reqs : Broadcast(r)
  \/ \E r \in Reqs : BroadcastFails(r)
  \/ \E r \in Reqs : Commit(r)
  \/ \E r \in Reqs : Abort(r)

Spec == Init /\ [][Next]_vars

(***************************************************************************)
(* The status changes of an order in the two statuses whose next step the  *)
(* comments of _validate_transition_requirements tie to an uploaded image, *)
(* together with the uploads.                                              *)
(***************************************************************************)
InitEvidence ==
  /\ \E k \in {index("weighing"), index("create_invoice")} : InitAt(k)
  /\ InitRest

NextEvidence ==
  \/ \E r \in Reqs : RouterUpdateOrderStatus(r)
  \/ \E r \in Reqs : ServiceValidate(r)
  \/ \E r \in Reqs : Save(r)
  \/ \E r \in Reqs : CreateStatusHistory(r)
  \/ \E r \in Reqs : LogActivity(r)
  \/ \E r \in Reqs : Broadcast(r)
  \/ \E r \in Reqs : BroadcastFails(r)
  \/ \E r \in Reqs : Commit(r)
  \/ \E r \in Reqs : Abort(r)
  \/ UploadOrderImage

SpecEvidence == InitEvidence /\ [][NextEvidence]_vars

(***************************************************************************)
(* UserRole.can_transition applied to every role, every status an order    *)
(* can have and every status a request can name.                           *)
(***************************************************************************)
CanTransitionCall ==
  /\ \E role \in UserRole, from_status \in OrderStatus,
        to_status \in RequestedStatuses :
       response' =
         [order_id |-> TheOrder, user |-> role, new_status |-> to_status,
          seen |-> from_status, old_status |-> None,
          result |-> IF can_transition(role, from_status, to_status)
                       THEN "allowed" ELSE "forbidden"]
  /\ UNCHANGED create_vars
  /\ UNCHANGED <<orders, status_history, activities, images, next_image_id,
                 events, clock, req, tx, submitted>>

InitPolicy == InitAt(1) /\ InitRest

SpecPolicy == InitPolicy /\ [][CanTransitionCall]_vars

(***************************************************************************)
(* apps/orders/models/order.py: generate_order_number, the default of      *)
(* Order.order_number. All orders are created on the same date, so an      *)
(* order number is its four-digit suffix.                                  *)
(***************************************************************************)
max_attempts == 10

Suffixes == 0..(MaxSuffixes - 1)

\* the order numbers a reader of the orders table sees
CommittedNumbers == {orders[o].order_number : o \in DOMAIN orders}

Max(numbers) == CHOOSE n \in numbers : \A m \in numbers : m <= n

\* the sequential fallback: one more than the greatest suffix of the date,
\* wrapping around
sequential_fallback(existing) ==
  IF existing # {} THEN (Max(existing) + 1) % MaxSuffixes ELSE 1

\* The numbers the loop can return with `attempts` draws left: a draw that is
\* not taken is returned, a draw that is taken leads to the next attempt.
RECURSIVE random_attempts(_, _)
random_attempts(attempts, existing) ==
  IF attempts = 0
    THEN {[order_number |-> sequential_fallback(existing), via |-> "sequential"]}
    ELSE {[order_number |-> n, via |-> "random"] : n \in Suffixes \ existing}
         \cup (IF Suffixes \cap existing # {}
                 THEN random_attempts(attempts - 1, existing) ELSE {})

generate_order_number(existing) == random_attempts(max_attempts, existing)

unique_violation_unchecked(order_number) == FALSE

\* unique=True of Order.order_number: the INSERT fails with IntegrityError
unique_violation(order_number) == order_number \in CommittedNumbers

(***************************************************************************)
(* OrderService.create_order, one transaction                              *)
(***************************************************************************)
RECURSIVE sum_items(_)
\* sum(item.quantity * item.price for item in order_data.items)
sum_items(items) ==
  IF items = <<>> THEN 0
  ELSE mul(items[1].quantity, items[1].price) + sum_items(Tail(items))

create_total_without_chip_fee(subtotal, shipping_fee, chip_fee) ==
  subtotal + shipping_fee

create_total(subtotal, shipping_fee, chip_fee) ==
  subtotal + shipping_fee + chip_fee

create_deadline(now) == now + get_duration_minutes("created")

\* the row the INSERT stores for an instance
order_row(order) ==
  [order EXCEPT !.subtotal = numeric_12_0(@),
                !.shipping_fee = numeric_12_0(@),
                !.chip_fee = numeric_12_0(@),
                !.total = numeric_12_0(@)]

\* OrderItem.save: total = quantity * price, and the row the INSERT stores
order_item_row(order_id, item) ==
  [order |-> order_id, quantity |-> item.quantity,
   price |-> numeric_12_0(item.price),
   total |-> numeric_12_0(mul(item.quantity, item.price))]

\* The totals and the deadline are computed and the Order is instantiated,
\* which draws its order number from the committed orders.
CreateOrderBegin(c) ==
  /\ creating[c].pc = "idle"
  /\ \A c2 \in Creators : c2 < c => creating[c2].pc # "idle"
  /\ created < MaxCreates
  /\ \E payload \in Payloads, g \in generate_order_number(CommittedNumbers) :
       LET subtotal == sum_items(payload.items)
           total == create_total(subtotal, payload.shipping_fee, payload.chip_fee)
       IN creating' = [creating EXCEPT ![c] =
            [pc |-> "numbered", payload |-> payload, via |-> g.via, id |-> 0,
             order |-> OrderInstance(g.order_number, clock,
                                     create_deadline(clock), subtotal,
                                     payload.shipping_fee, payload.chip_fee,
                                     total, payload.user),
             items |-> <<>>, assigned |-> {}]]
  /\ created' = created + 1
  /\ clock' = clock + 1
  /\ response' = NoCreateResponse
  /\ UNCHANGED <<orders, status_history, activities, images, next_image_id,
                 events, req, tx, submitted, order_items, next_order_id,
                 assigned_to, op_response, observers>>

\* Order.objects.create: the INSERT. It waits while another open transaction
\* has inserted the same order number, and fails when a committed order has
\* it; the id sequence advances either way.
InsertOrder(c) ==
  /\ creating[c].pc = "numbered"
  /\ \A c2 \in Creators \ {c} :
       ~(/\ creating[c2].pc \in {"inserted", "logged", "broadcast"}
         /\ creating[c2].order.order_number = creating[c].order.order_number)
  /\ IF unique_violation(creating[c].order.order_number)
       THEN /\ creating' = [creating EXCEPT ![c] = IdleCreate]
            /\ response' = CreateResponse(creating[c], "integrity_error")
       ELSE /\ creating' = [creating EXCEPT ![c].pc = "inserted",
                                            ![c].id = next_order_id]
            /\ response' = NoCreateResponse
  /\ next_order_id' = next_order_id + 1
  /\ UNCHANGED <<orders, status_history, activities, images, next_image_id,
                 events, clock, req, tx, submitted, order_items, created,
                 assigned_to, op_response, observers>>

\* User.objects.filter(id__in=user_ids): the users that exist among the ids
filter_users(user_ids) ==
  {u \in Staff : \E i \in 1..Len(user_ids) : user_ids[i] = u}

\* `if item_data.product_id:` and Product.objects.get(id=product_id) raising
\* Product.DoesNotExist: the lookup is made for an id that is not None and
\* not 0
product_not_found(item) ==
  /\ item.product_id # NoProductId /\ item.product_id # 0
  /\ item.product_id \notin Products

\* The items are added, each with its product looked up when product_id is
\* given, and an unknown product ends the transaction; then the users found
\* among assigned_to_ids are assigned and the activity of type created is
\* logged.
AddItems(c) ==
  /\ creating[c].pc = "inserted"
  /\ LET items == creating[c].payload.items
     IN IF \E i \in 1..Len(items) : product_not_found(items[i])
          THEN /\ creating' = [creating EXCEPT ![c] = IdleCreate]
               /\ response' = CreateResponse(creating[c], "product_not_found")
          ELSE /\ creating' = [creating EXCEPT ![c].pc = "logged",
                    ![c].items = [i \in 1..Len(items) |->
                                   order_item_row(creating[c].id, items[i])],
                    ![c].assigned = filter_users(creating[c].payload.assigned_to_ids)]
               /\ response' = NoCreateResponse
  /\ UNCHANGED <<orders, status_history, activities, images, next_image_id,
                 events, clock, req, tx, submitted, order_items,
                 next_order_id, created, assigned_to, op_response, observers>>

\* apps/orders/websocket_utils.py: the message goes to the order_updates group
broadcast_order_created(order_id) == Append(events, CreatedEvent(order_id))

\* the broadcast, still inside the transaction
BroadcastCreated(c) ==
  /\ creating[c].pc = "logged"
  /\ events' = broadcast_order_created(creating[c].id)
  /\ creating' = [creating EXCEPT ![c].pc = "broadcast"]
  /\ response' = NoCreateResponse
  /\ UNCHANGED <<orders, status_history, activities, images, next_image_id,
                 clock, req, tx, submitted, order_items, next_order_id, created,
                 assigned_to, op_response, observers>>

\* transaction.atomic exits normally: the order, its items and its activity
\* become visible and the router answers 201 with the instance
CommitCreate(c) ==
  /\ creating[c].pc = "broadcast"
  /\ orders' = [o \in DOMAIN orders \cup {creating[c].id} |->
                  IF o = creating[c].id THEN order_row(creating[c].order)
                  ELSE orders[o]]
  /\ order_items' = order_items \o creating[c].items
  /\ activities' = Append(activities,
                          CreatedActivity(creating[c].id, creating[c].payload.user))
  /\ assigned_to' = assigned_to
                      \cup {<<creating[c].id, u>> : u \in creating[c].assigned}
  /\ creating' = [creating EXCEPT ![c] = IdleCreate]
  /\ response' = CreateResponse(creating[c], "created")
  /\ UNCHANGED <<status_history, images, next_image_id, events, clock, req,
                 tx, submitted, next_order_id, created, op_response, observers>>

\* a database statement after the INSERT fails: the transaction rolls back
AbortCreate(c) ==
  /\ creating[c].pc \in {"inserted", "logged", "broadcast"}
  /\ creating' = [creating EXCEPT ![c] = IdleCreate]
  /\ response' = CreateResponse(creating[c], "error")
  /\ UNCHANGED <<orders, status_history, activities, images, next_image_id,
                 events, clock, req, tx, submitted, order_items,
                 next_order_id, created, assigned_to, op_response, observers>>

\* an empty database
InitCreate ==
  /\ orders = <<>>
  /\ status_history = <<>>
  /\ activities = <<>>
  /\ events = <<>>
  /\ clock = 0
  /\ images = <<>>
  /\ next_image_id = 1
  /\ req = [r \in Reqs |-> IdleReq]
  /\ response = NoCreateResponse
  /\ tx = NoTx
  /\ submitted = 0
  /\ order_items = <<>>
  /\ next_order_id = 1
  /\ creating = [c \in Creators |-> IdleCreate]
  /\ created = 0
  /\ assigned_to = {}
  /\ op_response = NoOpResponse
  /\ observers = [o \in Observers |-> ClosedObserver]

NextCreate ==
  \/ \E c \in Creators : CreateOrderBegin(c)
  \/ \E c \in Creators : InsertOrder(c)
  \/ \E c \in Creators : AddItems(c)
  \/ \E c \in Creators : BroadcastCreated(c)
  \/ \E c \in Creators : CommitCreate(c)
  \/ \E c \in Creators : AbortCreate(c)

SpecCreate == InitCreate /\ [][NextCreate]_vars

(***************************************************************************)
(* The operations on an existing order besides its status changes:         *)
(* OrderService.update_assigned_users, the upload of an image and the      *)
(* DELETE endpoints of apps/orders/routers/router_a.py.                    *)
(***************************************************************************)
\* the user_ids lists given: empty, staff, a duplicate, unknown ids
UserIdLists == {<<>>, <<2>>, <<2, 1>>, <<1, 1>>, <<3>>, <<1, 3>>}

\* the methods class OrderRepository defines
repository_methods ==
  {"get_all_orders", "get_order_by_id", "get_order_by_number", "create_order",
   "update_order", "delete_order", "get_order_images", "add_order_image",
   "count_orders_by_status"}

users_valid_unchecked(user_ids) == TRUE

\* `len(users) != len(user_ids)` raises ValueError: users is the queryset of
\* the users found
users_valid(user_ids) == Cardinality(filter_users(user_ids)) = Len(user_ids)

\* how update_assigned_users ends: the order is looked up, the users are
\* filtered and counted, the assignment is set and the order saved, and then
\* self.repository.create_activity is called
update_assigned_users(order_id, user_ids) ==
  IF order_id \notin DOMAIN orders THEN "order_not_found"
  ELSE IF ~users_valid(user_ids) THEN "invalid_ids"
  ELSE IF "create_activity" \notin repository_methods THEN "attribute_error"
  ELSE "ok"

AssignedActivity(order_id, user) ==
  [order |-> order_id, user |-> user, activity_type |-> "assigned_users_updated",
   old_value |-> None, new_value |-> None, reason |-> None]

AssignedEvent(order_id) ==
  [type |-> "order_assigned", order_id |-> order_id, old_status |-> None,
   new_status |-> None, order_status |-> None]

\* apps/orders/websocket_utils.py: the message goes to the order_updates group
broadcast_order_assigned(order_id) == Append(events, AssignedEvent(order_id))

\* One transaction: an exception raised anywhere in it undoes the assignment
\* and the save.
UpdateAssignedUsers ==
  /\ \E order_id \in OrderIds, user_ids \in UserIdLists, user \in {"admin", "manager"} :
       LET outcome == update_assigned_users(order_id, user_ids)
       IN /\ IF outcome = "ok"
               THEN /\ assigned_to' =
                         {a \in assigned_to : a[1] # order_id}
                           \cup {<<order_id, u>> : u \in filter_users(user_ids)}
                    /\ activities' = Append(activities,
                                            AssignedActivity(order_id, user))
                    /\ events' = broadcast_order_assigned(order_id)
               ELSE UNCHANGED <<assigned_to, activities, events>>
          /\ op_response' = OpResponse("update_assigned_users", order_id, 0,
                                       user_ids, outcome)
  /\ UNCHANGED <<orders, status_history, images, next_image_id, clock, req,
                 response, tx, submitted, order_items, next_order_id,
                 creating, created, observers>>

\* OrderImage.objects.filter(id=image_id, order_id=order_id).first()
find_image(order_id, image_id) ==
  {i \in 1..Len(images) :
     images[i].id = image_id /\ images[i].order = order_id}

\* DELETE /{order_id}/images/{image_id}: the row is deleted, nothing else is
\* written or sent
DeleteOrderImage ==
  /\ \E order_id \in OrderIds, image_id \in 1..MaxImages :
       IF find_image(order_id, image_id) = {}
         THEN /\ op_response' = OpResponse("delete_order_image", order_id,
                                           image_id, <<>>, "image_not_found")
              /\ UNCHANGED images
         ELSE /\ images' = SelectSeq(images, LAMBDA image : image.id # image_id)
              /\ op_response' = OpResponse("delete_order_image", order_id,
                                           image_id, <<>>, "image_deleted")
  /\ UNCHANGED <<orders, status_history, activities, next_image_id, events,
                 clock, req, response, tx, submitted, order_items,
                 next_order_id, creating, created, assigned_to,
                 observers>>

\* on_delete=CASCADE of the foreign key to Order: the rows of the order go
\* with it
cascade(rows, order_id) == SelectSeq(rows, LAMBDA row : row.order # order_id)

\* DELETE /{order_id}: order.delete(), nothing is logged or sent. The DELETE
\* waits for a transaction that has updated the row.
DeleteOrder ==
  /\ tx.owner = 0
  /\ \E order_id \in OrderIds :
       IF order_id \notin DOMAIN orders
         THEN /\ op_response' = OpResponse("delete_order", order_id, 0, <<>>,
                                           "order_not_found")
              /\ UNCHANGED <<orders, order_items, images, status_history,
                             activities, assigned_to>>
         ELSE /\ orders' = [o \in DOMAIN orders \ {order_id} |-> orders[o]]
              /\ order_items' = cascade(order_items, order_id)
              /\ images' = cascade(images, order_id)
              /\ status_history' = cascade(status_history, order_id)
              /\ activities' = cascade(activities, order_id)
              /\ assigned_to' = {a \in assigned_to : a[1] # order_id}
              /\ op_response' = OpResponse("delete_order", order_id, 0, <<>>,
                                           "order_deleted")
  /\ UNCHANGED <<next_image_id, events, clock, req, response, tx, submitted,
                 next_order_id, creating, created, observers>>

\* order 1 with one item, assigned to user 1
InitOps ==
  /\ \E k \in 1..(Len(workflow_order) - 1) : InitAt(k)
  /\ images = <<>>
  /\ next_image_id = 1
  /\ req = [r \in Reqs |-> IdleReq]
  /\ response = NoResponse
  /\ tx = NoTx
  /\ submitted = 0
  /\ order_items = <<order_item_row(TheOrder, Item(D(1), D(1), NoProductId))>>
  /\ next_order_id = TheOrder + 1
  /\ creating = [c \in Creators |-> IdleCreate]
  /\ created = 0
  /\ assigned_to = {<<TheOrder, 1>>}
  /\ op_response = NoOpResponse
  /\ observers = [o \in Observers |-> ClosedObserver]

NextOps ==
  \/ UpdateAssignedUsers
  \/ UploadOrderImage
  \/ DeleteOrderImage
  \/ DeleteOrder

SpecOps == InitOps /\ [][NextOps]_vars

(***************************************************************************)
(* The status changes of an order together with its deletion.              *)
(***************************************************************************)
NextDelete ==
  \/ \E r \in Reqs : RouterUpdateOrderStatus(r)
  \/ \E r \in Reqs : ServiceValidate(r)
  \/ \E r \in Reqs : Save(r)
  \/ \E r \in Reqs : CreateStatusHistory(r)
  \/ \E r \in Reqs : LogActivity(r)
  \/ \E r \in Reqs : Broadcast(r)
  \/ \E r \in Reqs : BroadcastFails(r)
  \/ \E r \in Reqs : Commit(r)
  \/ \E r \in Reqs : Abort(r)
  \/ DeleteOrder

SpecDelete == InitOps /\ [][NextDelete]_vars

(***************************************************************************)
(* The status changes of a new order when every request is made by a sale, *)
(* weighing or kitchen actor.                                              *)
(***************************************************************************)
InitStaff == InitAt(1) /\ InitRest

NextStaff ==
  \/ \E r \in Reqs : StaffUpdateOrderStatus(r)
  \/ \E r \in Reqs : ServiceValidate(r)
  \/ \E r \in Reqs : Save(r)
  \/ \E r \in Reqs : CreateStatusHistory(r)
  \/ \E r \in Reqs : LogActivity(r)
  \/ \E r \in Reqs : Broadcast(r)
  \/ \E r \in Reqs : BroadcastFails(r)
  \/ \E r \in Reqs : Commit(r)
  \/ \E r \in Reqs : Abort(r)

SpecStaff == InitStaff /\ [][NextStaff]_vars

(***************************************************************************)
(* apps/orders/consumers.py: OrderConsumer. Each connection joins the      *)
(* order_updates group of the channel layer; a message sent to the group   *)
(* is put on the channel of every member and the consumer handles the      *)
(* messages of its channel one after the other, connect first.             *)
(***************************************************************************)
\* a message on a channel: the event and its number among those published
Message(seq, event) == [seq |-> seq, type |-> event.type]

ConnectionEstablished == [seq |-> 0, type |-> "connection_established"]

\* the events published while clients are connected
PublishedEvents ==
  {CreatedEvent(TheOrder + 1),
   StatusChangedEvent(TheOrder, "created", "weighing", "weighing")}

\* channel_layer.group_send('order_updates', ...): the message is put on the
\* channel of every member of the group
group_send(event) ==
  [o \in Observers |->
     IF observers[o].in_group
       THEN [observers[o] EXCEPT
               !.mailbox = Append(@, Message(Len(events) + 1, event))]
       ELSE observers[o]]

\* a broadcast_* helper of apps/orders/websocket_utils.py is called
Publish ==
  /\ Len(events) < MaxPublished + 1
  /\ \E event \in PublishedEvents :
       /\ events' = Append(events, event)
       /\ observers' = group_send(event)
  /\ UNCHANGED <<orders, status_history, activities, images, next_image_id,
                 clock, req, response, tx, submitted, order_items,
                 next_order_id, creating, created, assigned_to, op_response>>

\* what only the consumers change
observer_frame ==
  UNCHANGED <<orders, status_history, activities, images, next_image_id,
              events, clock, req, response, tx, submitted, order_items,
              next_order_id, creating, created, assigned_to, op_response>>

Connect_replays_backlog(o) ==
  /\ observers[o].pc = "closed"
  /\ \A o2 \in Observers : o2 < o => observers[o2].pc # "closed"
  /\ observers' = [observers EXCEPT ![o].pc = "joined", ![o].in_group = TRUE,
                     ![o].joined_at = Len(events),
                     ![o].mailbox = [i \in 1..Len(events) |->
                                      Message(i, events[i])]]
  /\ observer_frame

\* connect: channel_layer.group_add
Connect(o) ==
  /\ observers[o].pc = "closed"
  /\ \A o2 \in Observers : o2 < o => observers[o2].pc # "closed"
  /\ observers' = [observers EXCEPT ![o].pc = "joined", ![o].in_group = TRUE,
                     ![o].joined_at = Len(events)]
  /\ observer_frame

\* connect: self.accept()
Accept(o) ==
  /\ observers[o].pc = "joined"
  /\ observers' = [observers EXCEPT ![o].pc = "accepted"]
  /\ observer_frame

\* connect: self.send of connection_established, the end of the handler
SendConnectionEstablished(o) ==
  /\ observers[o].pc = "accepted"
  /\ observers' = [observers EXCEPT ![o].pc = "open",
                     ![o].received = Append(@, ConnectionEstablished)]
  /\ observer_frame

\* a handler of a group message (order_created, order_status_changed, ...):
\* the next message of the channel is sent to the client
Dispatch(o) ==
  /\ observers[o].pc = "open"
  /\ observers[o].mailbox # <<>>
  /\ observers' = [observers EXCEPT ![o].mailbox = Tail(@),
                     ![o].received = Append(@, Head(observers[o].mailbox))]
  /\ observer_frame

\* the client closes the socket; the disconnect handler has not run yet
Close(o) ==
  /\ observers[o].pc = "open"
  /\ observers' = [observers EXCEPT ![o].pc = "closing"]
  /\ observer_frame

Disconnect_stays_in_group(o) ==
  /\ observers[o].pc = "closing"
  /\ observers' = [observers EXCEPT ![o].pc = "disconnected"]
  /\ observer_frame

\* disconnect: channel_layer.group_discard, and the consumer stops
Disconnect(o) ==
  /\ observers[o].pc = "closing"
  /\ observers' = [observers EXCEPT ![o].pc = "disconnected",
                     ![o].in_group = FALSE, ![o].mailbox = <<>>]
  /\ observer_frame

\* order 1 has been created, and announced, before anybody connects
InitObservers == InitAt(1) /\ InitRest

NextObservers ==
  \/ Publish
  \/ \E o \in Observers : Connect(o)
  \/ \E o \in Observers : Accept(o)
  \/ \E o \in Observers : SendConnectionEstablished(o)
  \/ \E o \in Observers : Dispatch(o)
  \/ \E o \in Observers : Close(o)
  \/ \E o \in Observers : Disconnect(o)

SpecObservers == InitObservers /\ [][NextObservers]_vars

(***************************************************************************)
(* Vocabulary of the properties                                            *)
(***************************************************************************)
Terminal == {"completed", "failed"}

\* the tables a reader of the database can see
Committed == <<orders, status_history, activities, images>>

\* a request that the validator has accepted and that has not answered yet
Accepted(r) ==
  req[r].pc \in {"validated", "saved", "history_created", "logged", "broadcast",
                 "broadcast_failed"}

\* the workflow order as the specification lists it
ClaimedPosition(status) ==
  CASE status = "created" -> 1
    [] status = "weighing" -> 2
    [] status = "create_invoice" -> 3
    [] status = "send_photo" -> 4
    [] status = "payment" -> 5
    [] status = "in_kitchen" -> 6
    [] status = "processing" -> 7
    [] status = "delivery" -> 8
    [] status = "completed" -> 9
    [] OTHER -> 0

\* one position after or before, or the pair (payment, delivery)
ClaimedAdjacent(from_status, to_status) ==
  /\ ClaimedPosition(from_status) > 0
  /\ ClaimedPosition(to_status) > 0
  /\ \/ ClaimedPosition(to_status) = ClaimedPosition(from_status) + 1
     \/ ClaimedPosition(to_status) = ClaimedPosition(from_status) - 1
     \/ from_status = "payment" /\ to_status = "delivery"

\* the allowed set of each role as the specification lists it
ClaimedAllowed(role) ==
  CASE role = "sale" ->
         {"created", "weighing", "create_invoice", "send_photo", "payment"}
    [] role = "weighing" -> {"weighing", "create_invoice", "send_photo"}
    [] role = "kitchen" -> {"in_kitchen", "processing", "delivery", "completed"}
    [] OTHER -> {}

ClaimedCanTransition(role, from_status, to_status) ==
  \/ role \in {"admin", "manager"}
  \/ from_status \in ClaimedAllowed(role) /\ to_status \in ClaimedAllowed(role)

\* NULL in the deadline column
NoDeadline == 0 - 1

\* the ten statuses as the specification lists them
ClaimedStatuses ==
  {"created", "weighing", "create_invoice", "send_photo", "payment",
   "in_kitchen", "processing", "delivery", "completed", "failed"}

\* the duration of each status, in minutes, as the specification lists them
ClaimedDuration(status) ==
  CASE status = "created" -> 15
    [] status = "weighing" -> 20
    [] status = "create_invoice" -> 10
    [] status = "send_photo" -> 10
    [] status = "payment" -> 30
    [] status = "in_kitchen" -> 60
    [] status = "processing" -> 45
    [] status = "delivery" -> 30
    [] OTHER -> 0

\* the ValueErrors of the graph check
GraphRejections ==
  {"invalid_status", "invalid_state", "not_adjacent", "completed_not_from_delivery"}

(***************************************************************************)
(* C1                                                                      *)
(***************************************************************************)
\* C1, as stated: every attempt on an order that is completed or failed is
\* answered with the terminal-state rejection, whatever the role.
C1_TerminalRejectionForEveryRole ==
  (response.seen \in Terminal /\ response.result # "payload_invalid")
    => response.result = "terminal"

\* An attempt whose role check sees a terminal status is refused 403 when the
\* role may not act on the pair; an attempt that the service validates against
\* a terminal status gets the terminal-state rejection, whatever it asks for.
C1_RejectedInTerminal ==
  /\ (response.seen \in Terminal /\ response.result # "payload_invalid"
        /\ ~ClaimedCanTransition(response.user, response.seen, response.new_status))
       => response.result = "forbidden"
  /\ response.old_status \in Terminal => response.result = "terminal"
  /\ \A r \in Reqs : Accepted(r) => req[r].old_status \notin Terminal

\* the rejected attempt writes nothing
C1_RejectionWritesNothing ==
  (response'.result \in {"forbidden", "terminal"})
    => UNCHANGED <<orders, status_history, activities, images, events, tx>>

\* C1 (amended): an attempt on an order read as completed or failed is
\* rejected, with 403 at the role check or with the terminal-state error in
\* the service, and writes nothing.
C1_Amended == []C1_RejectedInTerminal /\ [][C1_RejectionWritesNothing]_vars

\* C1 witness: an admin asks to fail an order that is already failed and gets
\* the terminal-state rejection.
C1_Witness ==
  /\ response.result = "terminal"
  /\ response.user = "admin"
  /\ response.new_status = "failed"
  /\ response.old_status = "failed"
  /\ orders[TheOrder].status = "failed"

(***************************************************************************)
(* C2                                                                      *)
(***************************************************************************)
\* C2: a status change that commits is legal from the status committed at
\* that moment (the second of two concurrent writers is validated against
\* what the first committed).
C2_SecondWriterRevalidated ==
  [][\A r \in Reqs :
       (req[r].pc \in {"broadcast", "broadcast_failed"}
          /\ response'.result = "ok" /\ req'[r].pc = "idle")
         => validate_status_transition(orders[req[r].order_id].status,
                                       req[r].new_status) = "ok"]_vars

(***************************************************************************)
(* C3                                                                      *)
(***************************************************************************)
\* C3: once the committed status is completed or failed it never changes,
\* and the failure_reason of a failed order is never overwritten.
C3_TerminalIsFinal ==
  [][\A o \in DOMAIN orders :
       orders[o].status \in Terminal
         => /\ orders'[o].status = orders[o].status
            /\ orders[o].status = "failed"
                 => orders'[o].failure_reason = orders[o].failure_reason]_vars

(***************************************************************************)
(* C4                                                                      *)
(***************************************************************************)
\* C4: for a non-terminal order and a requested status other than failed the
\* graph check accepts exactly the adjacent pairs and (payment, delivery).
C4_GraphCheck ==
  /\ (response.old_status \notin Terminal \cup {None}
        /\ response.new_status # "failed")
       => (response.result \in GraphRejections
             <=> ~ClaimedAdjacent(response.old_status, response.new_status))
  /\ \A r \in Reqs :
       (Accepted(r) /\ req[r].new_status # "failed")
         => ClaimedAdjacent(req[r].old_status, req[r].new_status)
  /\ (response.old_status = "created" /\ response.new_status = "processing")
       => response.result = "not_adjacent"
  /\ (response.old_status = "delivery" /\ response.new_status = "payment")
       => response.result = "not_adjacent"
  /\ (response.old_status \notin Terminal \cup {None}
        /\ response.new_status = response.old_status)
       => response.result = "not_adjacent"

\* C4 witness: payment to delivery has been accepted and committed.
C4_Witness ==
  /\ response.result = "ok"
  /\ response.old_status = "payment"
  /\ response.new_status = "delivery"
  /\ orders[TheOrder].status = "delivery"

(***************************************************************************)
(* C5                                                                      *)
(***************************************************************************)
\* C5, as stated: no request moves an order from payment to in_kitchen.
C5_PaymentToKitchenRejected ==
  ~(/\ response.result = "ok"
    /\ response.old_status = "payment"
    /\ response.new_status = "in_kitchen")

\* C5 (amended): payment to in_kitchen is refused to sale, weighing and
\* kitchen when the role check sees payment, and the validator accepts it (one
\* step forward) from every request that has passed the role check.
C5_Amended ==
  /\ (response.new_status = "in_kitchen" /\ response.seen = "payment"
        /\ response.user \in {"sale", "weighing", "kitchen"})
       => response.result = "forbidden"
  /\ (response.new_status = "in_kitchen" /\ response.old_status = "payment")
       => response.result \in {"ok", "error"}

\* C5 witness: an admin has moved the order from payment to in_kitchen.
C5_Witness ==
  /\ response.result = "ok"
  /\ response.user = "admin"
  /\ response.old_status = "payment"
  /\ response.new_status = "in_kitchen"
  /\ orders[TheOrder].status = "in_kitchen"

C7_Forbidden ==
  /\ (response.result \notin {None, "payload_invalid"} /\ response.seen # None
        /\ response.user \notin {"admin", "manager"}
        /\ (response.seen \notin ClaimedAllowed(response.user)
              \/ response.new_status \notin ClaimedAllowed(response.user)))
       => (response.result = "forbidden" /\ response.old_status = None)
  /\ \A r \in Reqs :
       (req[r].pc # "idle" /\ req[r].user \notin {"admin", "manager"})
         => /\ req[r].seen \in ClaimedAllowed(req[r].user)
            /\ req[r].new_status \in ClaimedAllowed(req[r].user)

\* the 403 leaves the order, its history, its activity log and the events alone
C7_ForbiddenWritesNothing ==
  response'.result = "forbidden"
    => UNCHANGED <<orders, status_history, activities, images, events, tx, clock>>

\* C7: a role other than admin and manager asking for a pair outside its
\* allowed set gets the authorization error before the service is called,
\* and nothing is written or emitted.
C7_AuthorizationFirst == []C7_Forbidden /\ [][C7_ForbiddenWritesNothing]_vars

\* C7 witness: a kitchen actor asked to take an order from payment to
\* in_kitchen and was refused.
C7_Witness ==
  /\ response.result = "forbidden"
  /\ response.user = "kitchen"
  /\ response.seen = "payment"
  /\ response.new_status = "in_kitchen"
  /\ orders[TheOrder].status = "payment"

(***************************************************************************)
(* C8                                                                      *)
(***************************************************************************)
\* C8: can_transition is true for admin and manager on every pair, and for
\* sale, weighing and kitchen exactly when both statuses are in the role's
\* set; weighing is refused created to weighing, sale is permitted it.
C8_CanTransition ==
  response.result \in {"allowed", "forbidden"}
    => /\ response.result = "allowed"
            <=> ClaimedCanTransition(response.user, response.seen,
                                     response.new_status)
       /\ (response.user = "weighing" /\ response.seen = "created"
             /\ response.new_status = "weighing")
            => response.result = "forbidden"
       /\ (response.user = "sale" /\ response.seen = "created"
             /\ response.new_status = "weighing")
            => response.result = "allowed"
       /\ response.user \in {"admin", "manager"} => response.result = "allowed"

\* C8 witness: can_transition has refused weighing the pair created, weighing.
C8_Witness ==
  /\ response.result = "forbidden"
  /\ response.user = "weighing"
  /\ response.seen = "created"
  /\ response.new_status = "weighing"
  /\ response.old_status = None

(***************************************************************************)
(* C9                                                                      *)
(***************************************************************************)
\* C9: a successful status change whose broadcast went out adds one history
\* row and one status_change activity and has emitted one status_changed
\* event, all three with the status the order had just before the change and
\* the one it has after.
C9_OneRecordOfEachKind ==
  [][(response'.result = "ok"
        /\ \E r \in Reqs : req[r].pc = "broadcast" /\ req'[r].pc = "idle")
       => LET o == response'.order_id
              h == Last(status_history')
              a == Last(activities')
              e == Last(events)
          IN /\ Len(status_history') = Len(status_history) + 1
             /\ Len(activities') = Len(activities) + 1
             /\ h.order = o /\ a.order = o /\ e.order_id = o
             /\ a.activity_type = "status_change"
             /\ e.type = "order_status_changed"
             /\ h.from_status = orders[o].status
             /\ a.old_value = orders[o].status
             /\ e.old_status = orders[o].status
             /\ h.to_status = orders'[o].status
             /\ a.new_value = orders'[o].status
             /\ e.new_status = orders'[o].status]_vars

(***************************************************************************)
(* C10                                                                     *)
(***************************************************************************)
\* the committed status of an order is the to_status of its newest history
\* row, or created when it has none
C10_StatusWithHistory ==
  \A o \in DOMAIN orders :
    LET rows == SelectSeq(status_history, LAMBDA row : row.order = o)
    IN IF rows = <<>> THEN orders[o].status = "created"
       ELSE Last(rows).to_status = orders[o].status

\* a status change that fails after the status write leaves the committed
\* order and its records as they were
C10_FailureRestores ==
  response'.result = "error"
    => /\ UNCHANGED <<orders, status_history, activities>>
       /\ tx'.owner = 0

\* C10: readers see the status mutation and its history row together or not
\* at all, and a failure after the status write leaves status,
\* status_changed_at, deadline and failure_reason as before the request.
C10_AtomicStatusChange == []C10_StatusWithHistory /\ [][C10_FailureRestores]_vars

\* C10 witness: a status change has failed after its status write, and the
\* order still has the status it was validated against.
C10_Witness ==
  /\ response.result = "error"
  /\ response.old_status # response.new_status
  /\ orders[response.order_id].status = response.old_status
  /\ tx.owner = 0

(***************************************************************************)
(* C11                                                                     *)
(***************************************************************************)
\* after the failed broadcast the transaction still holds the new status,
\* the history row and the activity
C11_TransitionKept ==
  \A r \in Reqs :
    req[r].pc = "broadcast_failed"
      => /\ tx.owner = r
         /\ tx.order.status = req[r].new_status
         /\ Len(tx.status_history) = 1
         /\ tx.status_history[1].to_status = req[r].new_status
         /\ Len(tx.activities) = 1
         /\ tx.activities[1].new_value = req[r].new_status

\* the request whose broadcast failed returns: success is reported and the
\* new status, the history row and the activity are committed
C11_ReturnsSuccess ==
  \A r \in Reqs :
    (req[r].pc = "broadcast_failed" /\ req'[r].pc = "idle"
       /\ response'.result # "error")
      => /\ response'.result = "ok"
         /\ orders'[req[r].order_id].status = req[r].new_status
         /\ Len(status_history') = Len(status_history) + 1
         /\ Last(status_history').to_status = req[r].new_status
         /\ Len(activities') = Len(activities) + 1
         /\ Last(activities').new_value = req[r].new_status
         /\ events' = events

C12_PublishedAfterCommit ==
  [][Len(events') > Len(events)
       => LET e == Last(events')
          IN e.type = "order_status_changed"
               => /\ tx.owner = 0
                  /\ orders[e.order_id].status = e.new_status]_vars

(***************************************************************************)
(* C13                                                                     *)
(***************************************************************************)
\* the rows of order_items of an order
ItemsOf(order_id) == SelectSeq(order_items, LAMBDA row : row.order = order_id)

RECURSIVE ClaimedSum(_)
\* the sum of quantity * price over rows
ClaimedSum(rows) ==
  IF rows = <<>> THEN 0
  ELSE mul(rows[1].quantity, rows[1].price) + ClaimedSum(Tail(rows))

\* C13: in every committed state of an order made by create_order,
\* total = subtotal + shipping_fee + chip_fee and subtotal is the sum of
\* quantity * price over the order's items.
C13_TotalsAddUp ==
  \A o \in DOMAIN orders :
    /\ orders[o].total
         = orders[o].subtotal + orders[o].shipping_fee + orders[o].chip_fee
    /\ orders[o].subtotal = ClaimedSum(ItemsOf(o))

C19_ScenarioPayload(payload) ==
  /\ Len(payload.items) = 2
  /\ payload.items[1].quantity = D(2) /\ payload.items[1].price = D(100000)
  /\ payload.items[2].quantity = D(1) /\ payload.items[2].price = D(50000)
  /\ payload.shipping_fee = D(20000) /\ payload.chip_fee = D(10000)

C15_ReasonIffFailed ==
  \A o \in DOMAIN orders :
    orders[o].failure_reason # "" <=> orders[o].status = "failed"

(***************************************************************************)
(* C16                                                                     *)
(***************************************************************************)
\* C16: a request for failed with no reason, left out or empty, never gets
\* past the check of its payload, and no order is failed without a reason.
C16_FailedNeedsReason ==
  /\ \A r \in Reqs :
       (req[r].pc # "idle" /\ req[r].new_status = "failed")
         => req[r].failure_reason \notin {None, ""}
  /\ \A o \in DOMAIN orders :
       orders[o].status = "failed" => orders[o].failure_reason \notin {None, ""}

(***************************************************************************)
(* C17                                                                     *)
(***************************************************************************)
\* the committed status is one of the ten, and a request naming another
\* string is rejected at the role check or by the validator
C17_StatusInSet ==
  /\ \A o \in DOMAIN orders : orders[o].status \in ClaimedStatuses
  /\ \A r \in Reqs : Accepted(r) => req[r].new_status \in ClaimedStatuses
  /\ (response.result # None /\ response.new_status \notin ClaimedStatuses)
       => response.result \in {"forbidden", "invalid_status", "terminal"}
  /\ (response.result # None /\ response.new_status \notin ClaimedStatuses
        /\ response.user \in {"admin", "manager"})
       => response.result \in {"invalid_status", "terminal"}

\* the rejected request leaves the order and its records as they were
C17_UnknownStatusWritesNothing ==
  (response'.result # None /\ response'.new_status \notin ClaimedStatuses)
    => UNCHANGED <<orders, status_history, activities, images, events, tx>>

\* C17: the committed status is always one of the ten values, and a request
\* naming any other string is rejected for every role and changes nothing.
C17_FixedStatusSet == []C17_StatusInSet /\ [][C17_UnknownStatusWritesNothing]_vars

\* C17 witness: an admin asked for the status cancelled on an order in payment
\* and the validator refused it.
C17_Witness ==
  /\ response.result = "invalid_status"
  /\ response.user = "admin"
  /\ response.new_status = "cancelled"
  /\ response.old_status = "payment"
  /\ orders[TheOrder].status = "payment"

(***************************************************************************)
(* C18                                                                     *)
(***************************************************************************)
\* C18: after a successful transition the deadline is status_changed_at plus
\* the duration of the new status, and there is no deadline when the new
\* status is completed or failed.
C18_DeadlineRecomputed ==
  response.result = "ok"
    => LET order == orders[response.order_id]
       IN IF response.new_status \in Terminal
            THEN order.deadline = NoDeadline
            ELSE order.deadline
                   = order.status_changed_at + ClaimedDuration(response.new_status)

(***************************************************************************)
(* C20                                                                     *)
(***************************************************************************)
\* C20: whenever the committed status of an order becomes completed, the
\* committed status just before was delivery.
C20_CompletedFromDelivery ==
  [][\A o \in DOMAIN orders :
       (orders'[o].status = "completed" /\ orders[o].status # "completed")
         => orders[o].status = "delivery"]_vars

(***************************************************************************)
(* C21                                                                     *)
(***************************************************************************)
\* C21: a request of an admin or manager for failed that carries a reason and
\* is validated against any status that is not completed or failed is
\* accepted: the role policy, the graph and the evidence check never refuse
\* it, and it commits unless a database statement fails.
C21_FailedFromAnyStatus ==
  /\ (response.new_status = "failed" /\ response.user \in {"admin", "manager"}
        /\ response.old_status \in ClaimedStatuses \ Terminal)
       => response.result \in {"ok", "error"}
  /\ (response.new_status = "failed" /\ response.user \in {"admin", "manager"}
        /\ response.seen \in ClaimedStatuses \ Terminal)
       => response.result \notin {"forbidden", "missing_evidence"} \cup GraphRejections
  /\ (response.new_status = "failed" /\ response.result = "ok")
       => orders[response.order_id].status = "failed"

\* C21 witness: a manager has failed, with a reason, an order that was in the
\* first status of the workflow.
C21_Witness ==
  /\ response.result = "ok"
  /\ response.user = "manager"
  /\ response.new_status = "failed"
  /\ response.old_status = "created"
  /\ orders[TheOrder].status = "failed"
  /\ orders[TheOrder].failure_reason = "changed mind"

(***************************************************************************)
(* C22                                                                     *)
(***************************************************************************)
\* the rejections of the transition validator
ValidatorRejections == {"terminal", "missing_evidence"} \cup GraphRejections

\* C22: a request that the transition validator rejects leaves the order's
\* status, status_changed_at, deadline and failure_reason as they were, adds
\* no history row and no activity and emits no event.
C22_RejectionChangesNothing ==
  [][response'.result \in ValidatorRejections
       => /\ UNCHANGED <<orders, status_history, activities, events, tx>>
          /\ \A r \in Reqs : req'[r] = req[r] \/ req'[r] = IdleReq]_vars

\* C22 witness: a manager asked for a status that is not adjacent and was
\* refused; the order is where it was.
C22_Witness ==
  /\ response.result = "not_adjacent"
  /\ response.user = "manager"
  /\ response.old_status = "weighing"
  /\ response.new_status = "payment"
  /\ orders[TheOrder].status = "weighing"
  /\ Len(status_history) = 1

(***************************************************************************)
(* C23                                                                     *)
(***************************************************************************)
\* C23: the role policy is checked first, then the terminal-state guard, then
\* adjacency, then the evidence precondition, and the first failing check
\* gives the error: a non-adjacent target on a completed order reports the
\* terminal-state reason.
C23_ChecksInOrder ==
  /\ (response.result \notin {None, "payload_invalid"} /\ response.seen # None
        /\ ~ClaimedCanTransition(response.user, response.seen, response.new_status))
       => (response.result = "forbidden" /\ response.old_status = None)
  /\ response.old_status \in Terminal => response.result = "terminal"
  /\ (response.old_status \in ClaimedStatuses \ Terminal
        /\ response.new_status # "failed"
        /\ ~ClaimedAdjacent(response.old_status, response.new_status))
       => response.result \in GraphRejections
  /\ response.result \in ValidatorRejections
       => ClaimedCanTransition(response.user, response.seen, response.new_status)
  /\ (response.old_status = "completed" /\ response.new_status = "created")
       => response.result = "terminal"

\* C23 witness: an admin asked to take a completed order back to created and
\* got the terminal-state rejection.
C23_Witness ==
  /\ response.result = "terminal"
  /\ response.user = "admin"
  /\ response.old_status = "completed"
  /\ response.new_status = "created"
  /\ orders[TheOrder].status = "completed"

(***************************************************************************)
(* C24                                                                     *)
(***************************************************************************)
\* the tables and the events a create_order may add to
CreateEffects == <<orders, order_items, assigned_to, activities, events>>

\* C24: create_order fails whenever an item names a product id that is not in
\* the products table, and a create_order that fails so persists no order, no
\* item, no assignment and no activity and emits no event.
C24_UnknownProductFails ==
  /\ [](response.result = "created"
          => \A i \in 1..Len(response.payload.items) :
               \/ response.payload.items[i].product_id = NoProductId
               \/ response.payload.items[i].product_id \in Products)
  /\ [][response'.result = "product_not_found" => UNCHANGED CreateEffects]_vars

(***************************************************************************)
(* C25                                                                     *)
(***************************************************************************)
\* C25: a create_order whose assigned_to_ids names a user id that does not
\* exist is never answered with success, and persists nothing.
C25_UnknownStaffFails ==
  [][(\E i \in 1..Len(response'.payload.assigned_to_ids) :
        response'.payload.assigned_to_ids[i] \notin Staff)
       => (response'.result # "created" /\ UNCHANGED CreateEffects)]_vars

(***************************************************************************)
(* C26                                                                     *)
(***************************************************************************)
\* the ids of the users a table of assignments gives to an order
AssignedTo(table, order_id) == {a[2] : a \in {b \in table : b[1] = order_id}}

\* the rows of a table that belong to an order
RowsOf(rows, order_id) == SelectSeq(rows, LAMBDA row : row.order = order_id)

\* C26: update_assigned_users of an existing order, given a list with an id
\* of no user, ends with the validation error and leaves the assigned users,
\* the activities and the events as they were.
C26_UnknownIdRejected ==
  [][(/\ op_response'.op = "update_assigned_users"
      /\ op_response'.order_id \in DOMAIN orders
      /\ \E i \in 1..Len(op_response'.user_ids) :
            op_response'.user_ids[i] \notin Staff)
       => /\ op_response'.result = "invalid_ids"
          /\ UNCHANGED <<assigned_to, activities, events, orders>>]_vars

\* C26 witness: the list [1, 3] was refused and user 1 is still the one
\* assigned.
C26_Witness ==
  /\ op_response.op = "update_assigned_users"
  /\ op_response.user_ids = <<1, 3>>
  /\ op_response.result = "invalid_ids"
  /\ op_response.order_id = TheOrder
  /\ AssignedTo(assigned_to, TheOrder) = {1}

(***************************************************************************)
(* C27                                                                     *)
(***************************************************************************)
\* C27: update_assigned_users of an existing order, given a list of ids of
\* existing users, succeeds: afterwards the assigned users are the ids given,
\* one activity has been appended and one event emitted.
C27_ValidIdsAssigned ==
  [][(/\ op_response'.op = "update_assigned_users"
      /\ op_response'.order_id \in DOMAIN orders
      /\ \A i \in 1..Len(op_response'.user_ids) :
            op_response'.user_ids[i] \in Staff)
       => /\ op_response'.result = "ok"
          /\ AssignedTo(assigned_to', op_response'.order_id)
               = {op_response'.user_ids[i] : i \in 1..Len(op_response'.user_ids)}
          /\ Len(activities') = Len(activities) + 1
          /\ Len(events') = Len(events) + 1]_vars

(***************************************************************************)
(* C28                                                                     *)
(***************************************************************************)
\* C28: an upload, a deletion of an image or an assignment that succeeds
\* appends exactly one activity of its order.
C28_OneActivityPerOperation ==
  [][op_response'.result \in {"uploaded", "image_deleted", "ok"}
       => /\ Len(activities') = Len(activities) + 1
          /\ SubSeq(activities', 1, Len(activities)) = activities
          /\ Last(activities').order = op_response'.order_id]_vars

(***************************************************************************)
(* C29                                                                     *)
(***************************************************************************)
\* C29: a delete_order that succeeds emits exactly one deleted event of the
\* order, and a delete_order_image that succeeds exactly one evidence_deleted
\* event of the order.
C29_DeletionsAnnounced ==
  [][/\ op_response'.result = "order_deleted"
          => /\ Len(events') = Len(events) + 1
             /\ Last(events').type = "order_deleted"
             /\ Last(events').order_id = op_response'.order_id
     /\ op_response'.result = "image_deleted"
          => /\ Len(events') = Len(events) + 1
             /\ Last(events').type = "order_image_deleted"
             /\ Last(events').order_id = op_response'.order_id]_vars

(***************************************************************************)
(* C30                                                                     *)
(***************************************************************************)
\* C30: no step removes or changes a history row or an activity: the rows
\* recorded for an order stay, in their order, and their number never
\* decreases.
C30_AuditTrailAppendOnly ==
  [][\A o \in OrderIds :
       /\ Len(RowsOf(status_history, o)') >= Len(RowsOf(status_history, o))
       /\ SubSeq(RowsOf(status_history, o)', 1, Len(RowsOf(status_history, o)))
            = RowsOf(status_history, o)
       /\ Len(RowsOf(activities, o)') >= Len(RowsOf(activities, o))
       /\ SubSeq(RowsOf(activities, o)', 1, Len(RowsOf(activities, o)))
            = RowsOf(activities, o)]_vars

(***************************************************************************)
(* C31                                                                     *)
(***************************************************************************)
\* the rows of the tables that reference an order
References(order_id) ==
  Len(RowsOf(order_items, order_id)) + Len(RowsOf(images, order_id))
    + Len(RowsOf(status_history, order_id)) + Len(RowsOf(activities, order_id))

\* C31: once delete_order has succeeded the order is gone and stays gone, no
\* item, image, history row or activity references it, and a status change
\* submitted afterwards is answered with not found.
C31_DeletedOrderIsGone ==
  /\ [](op_response.result = "order_deleted"
          => /\ op_response.order_id \notin DOMAIN orders
             /\ References(op_response.order_id) = 0)
  /\ [][(op_response.result = "order_deleted" /\ submitted' = submitted + 1
          /\ response'.order_id = op_response.order_id)
         => response'.result \in {"order_not_found", "payload_invalid"}]_vars

(***************************************************************************)
(* C32                                                                     *)
(***************************************************************************)
\* C32: the first message a client receives is connection_established, and
\* every event it receives or has on its channel was published after it
\* joined the group.
C32_NoReplay ==
  \A o \in Observers :
    /\ observers[o].received # <<>>
         => observers[o].received[1] = ConnectionEstablished
    /\ \A i \in 2..Len(observers[o].received) :
         /\ observers[o].received[i].type # "connection_established"
         /\ observers[o].received[i].seq > observers[o].joined_at
    /\ \A i \in 1..Len(observers[o].mailbox) :
         observers[o].mailbox[i].seq > observers[o].joined_at

\* C32 witness: a client that connected after the first event was published
\* has received connection_established and then the second event only.
C32_Witness ==
  \E o \in Observers :
    /\ observers[o].joined_at = 1
    /\ Len(observers[o].received) = 2
    /\ observers[o].received[2].seq = 2
    /\ Len(events) = 2

(***************************************************************************)
(* C33                                                                     *)
(***************************************************************************)
\* the positions of a connection between its connect and its disconnect
Connected == {"joined", "accepted", "open", "closing"}

\* C33: the members of the order_updates group are the connections that have
\* connected and not disconnected, a published event goes to the channels of
\* exactly the members, and a connection that has disconnected receives
\* nothing more.
C33_GroupIsTheConnected ==
  /\ [](\A o \in Observers :
          observers[o].in_group <=> observers[o].pc \in Connected)
  /\ [][\A o \in Observers :
          /\ Len(events') = Len(events) + 1
               => IF observers[o].pc \in Connected
                    THEN observers'[o].mailbox
                           = Append(observers[o].mailbox,
                                    Message(Len(events'), Last(events')))
                    ELSE observers'[o] = observers[o]
          /\ observers[o].pc \in {"closing", "disconnected"}
               => observers'[o].received = observers[o].received]_vars

\* C33 witness: the first connection has disconnected after receiving an
\* event, and the event published afterwards went to the second connection
\* only.
C33_Witness ==
  /\ observers[1].pc = "disconnected"
  /\ Len(observers[1].received) = 2
  /\ observers[1].received[2].seq = 2
  /\ Len(observers[2].received) = 2
  /\ observers[2].received[2].seq = 3

(***************************************************************************)
(* C34                                                                     *)
(***************************************************************************)
\* C34: an order number generated while no other create_order is running is
\* the number of no existing order, whether it was drawn at random or came
\* from the sequential fallback.
C34_FreshOrderNumber ==
  [][\A c \in Creators :
       (/\ creating[c].pc = "idle" /\ creating'[c].pc = "numbered"
        /\ \A c2 \in Creators \ {c} : creating[c2].pc = "idle")
         => creating'[c].order.order_number \notin CommittedNumbers]_vars

(***************************************************************************)
(* C35                                                                     *)
(***************************************************************************)
\* C35: in every committed state the history rows of an order form a chain:
\* the oldest starts at created, each later row starts where the row before
\* it ended, and the newest ends at the order's status.
C35_HistoryIsAChain ==
  \A o \in DOMAIN orders :
    LET rows == RowsOf(status_history, o)
    IN rows # <<>>
         => /\ rows[1].from_status = "created"
            /\ \A i \in 2..Len(rows) :
                 rows[i].from_status = rows[i - 1].to_status
            /\ Last(rows).to_status = orders[o].status

(***************************************************************************)
(* C36                                                                     *)
(***************************************************************************)
\* C36: when a status change by a sale, weighing or kitchen actor commits,
\* the status the service read and applied the change to and the new status
\* are both in the allowed set of the role.
C36_AppliedWithinRole ==
  (response.result = "ok" /\ response.user \in {"sale", "weighing", "kitchen"})
    => /\ response.old_status \in ClaimedAllowed(response.user)
       /\ response.new_status \in ClaimedAllowed(response.user)

(***************************************************************************)
(* C37                                                                     *)
(***************************************************************************)
\* the statuses the claim says staff can take an order to
ClaimedStaffStatuses ==
  {"created", "weighing", "create_invoice", "send_photo", "payment"}

StatusColumns == {"status", "status_changed_at", "deadline", "failure_reason"}

\* the step on which a status change commits and is answered 200
StatusChangeCommits ==
  tx.owner # 0 /\ tx' = NoTx /\ response'.result = "ok"

\* C38: the commit of a successful status change leaves every column of the
\* order other than status, status_changed_at, deadline and failure_reason
\* as it was, changes failure_reason only when the new status is failed,
\* leaves the items, the assigned staff and the images as they were, and adds
\* one history row and one activity after the ones there were.
C38_OnlyStatusFieldsChange ==
  [][StatusChangeCommits =>
       LET id == response'.order_id
       IN /\ id \in DOMAIN orders
          /\ \A f \in DOMAIN orders[id] \ StatusColumns :
               orders'[id][f] = orders[id][f]
          /\ response'.new_status # "failed"
               => orders'[id].failure_reason = orders[id].failure_reason
          /\ order_items' = order_items
          /\ assigned_to' = assigned_to
          /\ images' = images
          /\ Len(status_history') = Len(status_history) + 1
          /\ SubSeq(status_history', 1, Len(status_history)) = status_history
          /\ Len(activities') = Len(activities) + 1
          /\ SubSeq(activities', 1, Len(activities)) = activities]_vars

(***************************************************************************)
(* C39                                                                     *)
(***************************************************************************)
\* the roles for which get_user_permissions reports can_create_order
can_create_order == {"admin", "manager", "sale"}

\* C39: every order was created by an admin, manager or sale actor, and a
\* create_order request answered 201 was made by one of them.
C39_CreatedByPermittedRole ==
  /\ \A o \in DOMAIN orders : orders[o].created_by \in can_create_order
  /\ response.result = "created" => response.payload.user \in can_create_order

====
